---- MODULE Spec2Model ----
(***************************************************************************)
(* A model of mini-git: the content-addressable object store               *)
(* (src/src/hash_object.py), the directory tree (src/src/tree.py), the     *)
(* commit graph (src/src/commit.py), the line diff (src/src/diff.py), the  *)
(* three-way merge (src/src/merge.py) and the repository that ties them    *)
(* together (src/src/repository.py, branch.py, staging.py).                *)
(*                                                                         *)
(* Python values are records, so that any two of them can be compared:     *)
(*   None            [none |-> TRUE]                                       *)
(*   ''              [str |-> <<>>]                                        *)
(*   an int n        [int |-> n]                                           *)
(*   a bytes object  [bytes |-> <<b1, ..., bn>>]                           *)
(*   a hex digest    [sha1 |-> the byte stream that was hashed]            *)
(* SHA-1 is modelled as a collision-free digest: the digest of a stream is *)
(* a symbolic value that determines the stream and nothing else.           *)
(***************************************************************************)
EXTENDS Integers, Sequences, FiniteSets, TLC

VARIABLES
    objects,    \* the objects directory: digest -> contents of the file at its path
    issued,     \* history: the (object, digest) pairs store_object has returned
    chain,      \* history: the digests of the commits made one on top of the other
    last,       \* the last call made: its name, arguments, result and the store before it
    pc,         \* concurrent callers of store_object: position of each
    job,        \* concurrent callers of store_object: the object each is storing
    tree,       \* the root TreeNode of a DirectoryTree
    added,      \* history: the paths given to add_file on tree
    texts,      \* the two texts given to compute_diff
    merging,    \* perform_merge under way: its three file maps, its MergeResult, the paths left
    repo        \* a Repository: its branches, current branch, staging area and author

vars == <<objects, issued, chain, last, pc, job, tree, added, texts, merging, repo>>
storeVars == <<objects, issued, chain, last>>
concVars == <<pc, job>>
treeVars == <<tree, added>>
diffVars == <<texts>>
mergeVars == <<merging>>
repoVars == <<repo>>

----------------------------------------------------------------------------
(* Bounds *)

MaxObjects == 4     \* files in the objects directory
MaxAdds == 3        \* add_file calls on one tree
MaxLines == 3       \* lines of a text given to compute_diff
MaxCommits == 2     \* commits in the store of a repository

----------------------------------------------------------------------------
(* Python values *)

None == [none |-> TRUE]
EmptyStr == [str |-> <<>>]
PyInt(n) == [int |-> n]
Bytes(s) == [bytes |-> s]

\* bool(v) for the values tested in a condition: None, '' and 0 are false.
Truthy(v) == v # None /\ v # EmptyStr /\ v # PyInt(0)

Ok(v) == [ok |-> TRUE, val |-> v]
Raise(e) == [ok |-> FALSE, exc |-> e]

----------------------------------------------------------------------------
(* hash_object.py *)

\* pickle.dumps(obj): a framed stream, protocol header first and STOP last.
pickle_dumps(obj) ==
    <<[opcode |-> "PROTO"], [opcode |-> "OBJ", value |-> obj], [opcode |-> "STOP"]>>

\* pickle.loads(stream): the object of a stream that runs up to its STOP
\* opcode (what follows STOP is not read); a shorter stream is an error.
pickle_loads(stream) ==
    IF Len(stream) = 0 THEN Raise("EOFError")
    ELSE IF Len(stream) < 3 THEN Raise("UnpicklingError")
    ELSE Ok(stream[2].value)

\* A digest that looks at the protocol header only.
hash_contentHeaderOnly(content) == [sha1 |-> SubSeq(content, 1, 1)]

hash_content(content) == [sha1 |-> content]

object_exists(objs, obj_hash) == obj_hash \in DOMAIN objs

\* The store after open(obj_path, 'wb'); f.write(data).
WriteFile(objs, obj_path, data) ==
    [p \in DOMAIN objs \cup {obj_path} |-> IF p = obj_path THEN data ELSE objs[p]]

\* A store_object that opens the file to append and does not look first.
store_objectAppend(objs, obj) ==
    LET serialized == pickle_dumps(obj)
        obj_hash == hash_content(serialized)
        old == IF obj_hash \in DOMAIN objs THEN objs[obj_hash] ELSE <<>>
    IN  [ret |-> obj_hash, objs |-> WriteFile(objs, obj_hash, old \o serialized)]

\* store_object(obj) on the store objs: the digest returned and the store left.
store_object(objs, obj) ==
    LET serialized == pickle_dumps(obj)
        obj_hash == hash_content(serialized)
    IN  [ret |-> obj_hash,
         objs |-> IF ~object_exists(objs, obj_hash)
                  THEN WriteFile(objs, obj_hash, serialized)
                  ELSE objs]

retrieve_object(objs, obj_hash) ==
    IF ~object_exists(objs, obj_hash)
    THEN Raise("FileNotFoundError")
    ELSE pickle_loads(objs[obj_hash])

----------------------------------------------------------------------------
(* commit.py *)

\* Commit.__init__: hash is None until the commit has been stored.
Commit(tree_hash, parent_hash, message, author, timestamp) ==
    [tree_hash |-> tree_hash, parent_hash |-> parent_hash, message |-> message,
     author |-> author, timestamp |-> timestamp, hash |-> None]

IsCommit(obj) == "tree_hash" \in DOMAIN obj

\* create_commit at the instant now: the Commit is pickled before its hash is set.
create_commit(objs, tree_hash, parent_hash, message, author, now) ==
    store_object(objs, Commit(tree_hash, parent_hash, message, author, now))

\* A get_commit that yields a parentless commit for a hash that is not stored.
get_commitLenient(objs, commit_hash) ==
    LET r == retrieve_object(objs, commit_hash)
    IN  IF ~r.ok THEN Ok([Commit(None, None, "", "", 0) EXCEPT !.hash = commit_hash])
        ELSE IF ~IsCommit(r.val) THEN Raise("AttributeError")
        ELSE Ok([r.val EXCEPT !.hash = commit_hash])

\* get_commit: setting .hash on a stored object that is no Commit (bytes, dict) fails.
get_commit(objs, commit_hash) ==
    LET r == retrieve_object(objs, commit_hash)
    IN  IF ~r.ok THEN r
        ELSE IF ~IsCommit(r.val) THEN Raise("AttributeError")
        ELSE Ok([r.val EXCEPT !.hash = commit_hash])

RECURSIVE history_loop(_, _, _, _, _)
history_loop(objs, current_hash, count, history, max_count) ==
    IF current_hash = None THEN Ok(history)
    ELSE IF Truthy(max_count) /\ count >= max_count.int THEN Ok(history)
    ELSE LET c == get_commit(objs, current_hash)
         IN  IF ~c.ok THEN c
             ELSE history_loop(objs, c.val.parent_hash, count + 1,
                               Append(history, c.val), max_count)

\* A history whose count starts at one.
get_commit_historyFromOne(objs, commit_hash, max_count) ==
    history_loop(objs, commit_hash, 1, <<>>, max_count)

get_commit_history(objs, commit_hash, max_count) ==
    history_loop(objs, commit_hash, 0, <<>>, max_count)

\* The first loop of find_common_ancestor: the hashes on the chain of commit1.
RECURSIVE ancestors_loop(_, _, _)
ancestors_loop(objs, current, ancestors1) ==
    IF ~Truthy(current) THEN Ok(ancestors1)
    ELSE LET c == get_commit(objs, current)
         IN  IF ~c.ok THEN c
             ELSE ancestors_loop(objs, c.val.parent_hash, ancestors1 \cup {current})

\* The second loop: the first hash on the chain of commit2 that is in ancestors1.
RECURSIVE search_loop(_, _, _)
search_loop(objs, current, ancestors1) ==
    IF ~Truthy(current) THEN Ok(None)
    ELSE IF current \in ancestors1 THEN Ok(current)
    ELSE LET c == get_commit(objs, current)
         IN  IF ~c.ok THEN c
             ELSE search_loop(objs, c.val.parent_hash, ancestors1)

\* A search that starts at the parent of commit2.
find_common_ancestorSkipStart(objs, commit1_hash, commit2_hash) ==
    LET a == ancestors_loop(objs, commit1_hash, {})
        c == get_commit(objs, commit2_hash)
    IN  IF ~a.ok THEN a
        ELSE IF ~c.ok THEN c
        ELSE search_loop(objs, c.val.parent_hash, a.val)

\* The ancestors of commit1 are gathered from its parent on.
find_common_ancestorFromParent(objs, commit1_hash, commit2_hash) ==
    LET c == get_commit(objs, commit1_hash)
    IN  IF ~c.ok THEN c
        ELSE LET a == ancestors_loop(objs, c.val.parent_hash, {})
             IN  IF ~a.ok THEN a ELSE search_loop(objs, commit2_hash, a.val)

find_common_ancestor(objs, commit1_hash, commit2_hash) ==
    LET a == ancestors_loop(objs, commit1_hash, {})
    IN  IF ~a.ok THEN a ELSE search_loop(objs, commit2_hash, a.val)

RECURSIVE count_loop(_, _, _)
count_loop(objs, current, count) ==
    IF ~Truthy(current) THEN Ok(PyInt(count))
    ELSE LET c == get_commit(objs, current)
         IN  IF ~c.ok THEN c
             ELSE count_loop(objs, c.val.parent_hash, count + 1)

\* A count that starts at one.
get_commit_countFromOne(objs, commit_hash) == count_loop(objs, commit_hash, 1)

get_commit_count(objs, commit_hash) == count_loop(objs, commit_hash, 0)

----------------------------------------------------------------------------
(* tree.py *)

\* A str is the sequence of its characters.
Slash == "/"

\* path.split('/'): the pieces between the separators, empty ones included.
RECURSIVE split(_)
split(path) ==
    IF \A i \in DOMAIN path : path[i] # Slash THEN <<path>>
    ELSE LET i == CHOOSE k \in DOMAIN path :
                      path[k] = Slash /\ \A j \in 1..(k - 1) : path[j] # Slash
         IN  <<SubSeq(path, 1, i - 1)>> \o split(SubSeq(path, i + 1, Len(path)))

\* TreeNode.__init__; children is a dict in insertion order, held as the
\* sequence of its values, each under the key that is its name.
TreeNode(name, is_file, content_hash) ==
    [name |-> name, is_file |-> is_file, content_hash |-> content_hash,
     children |-> <<>>]

\* Where the child called name stands among the children of node, or 0.
ChildIndex(node, name) ==
    IF \E i \in DOMAIN node.children : node.children[i].name = name
    THEN CHOOSE i \in DOMAIN node.children : node.children[i].name = name
    ELSE 0

\* self.children[child.name] = child: a name already there keeps its place.
add_child(node, child) ==
    LET i == ChildIndex(node, child.name)
    IN  IF i = 0 THEN [node EXCEPT !.children = Append(@, child)]
        ELSE [node EXCEPT !.children[i] = child]

get_child(node, name) ==
    LET i == ChildIndex(node, name)
    IN  IF i = 0 THEN None ELSE node.children[i]

\* A dict of Python in insertion order: the sequence of its items.
Item(key, value) == [key |-> key, value |-> value]

RECURSIVE TreeNode_to_dict(_)
TreeNode_to_dict(node) ==
    IF node.is_file
    THEN [name |-> node.name, is_file |-> node.is_file,
          content_hash |-> node.content_hash]
    ELSE [name |-> node.name, is_file |-> node.is_file,
          children |-> [i \in DOMAIN node.children |->
                           Item(node.children[i].name,
                                TreeNode_to_dict(node.children[i]))]]

\* data.get(key): None for a key the dict has not.
DictGet(data, key) == IF key \in DOMAIN data THEN data[key] ELSE None

RECURSIVE add_children(_, _)
add_children(node, children) ==
    IF children = <<>> THEN node
    ELSE add_children(add_child(node, Head(children)), Tail(children))

\* A from_dict that reads the hash of a file under the key 'hash'.
RECURSIVE TreeNode_from_dictWrongKey(_)
TreeNode_from_dictWrongKey(data) ==
    LET node == TreeNode(data.name, data.is_file, DictGet(data, "hash"))
    IN  IF ~node.is_file
        THEN add_children(node,
                 [i \in DOMAIN data.children |->
                     TreeNode_from_dictWrongKey(data.children[i].value)])
        ELSE node

\* A from_dict that walks the children from the last to the first.
RECURSIVE TreeNode_from_dictReversed(_)
TreeNode_from_dictReversed(data) ==
    LET node == TreeNode(data.name, data.is_file, DictGet(data, "content_hash"))
        n == IF node.is_file THEN 0 ELSE Len(data.children)
    IN  IF ~node.is_file
        THEN add_children(node,
                 [i \in 1..n |->
                     TreeNode_from_dictReversed(data.children[n + 1 - i].value)])
        ELSE node

RECURSIVE TreeNode_from_dict(_)
TreeNode_from_dict(data) ==
    LET node == TreeNode(data.name, data.is_file, DictGet(data, "content_hash"))
    IN  IF ~node.is_file
        THEN add_children(node,
                 [i \in DOMAIN data.children |->
                     TreeNode_from_dict(data.children[i].value)])
        ELSE node

\* DirectoryTree.__init__: the tree is its root.
DirectoryTree == TreeNode(<<".">>, FALSE, None)

\* add_file below node, parts being what is left of the path: a missing
\* directory is created, and whatever node has the name is walked into.
RECURSIVE add_parts(_, _, _)
add_parts(node, parts, content_hash) ==
    IF Len(parts) = 1
    THEN add_child(node, TreeNode(parts[1], TRUE, content_hash))
    ELSE LET found == get_child(node, parts[1])
             child == IF found = None THEN TreeNode(parts[1], FALSE, None) ELSE found
         IN  add_child(node, add_parts(child, Tail(parts), content_hash))

add_file(root, path, content_hash) == add_parts(root, split(path), content_hash)

RECURSIVE walk_parts(_, _)
walk_parts(current, parts) ==
    IF parts = <<>>
    THEN (IF current.is_file THEN current.content_hash ELSE None)
    ELSE LET child == get_child(current, parts[1])
         IN  IF child = None THEN None ELSE walk_parts(child, Tail(parts))

get_file_hash(root, path) == walk_parts(root, split(path))

\* f"{path}/{child_name}" if path else child_name
child_path(path, child_name) ==
    IF path # <<>> THEN path \o <<Slash>> \o child_name ELSE child_name

RECURSIVE dfs(_, _)
RECURSIVE dfs_children(_, _, _)
dfs(node, path) ==
    IF node.is_file THEN <<path>> ELSE dfs_children(node, path, 1)
dfs_children(node, path, i) ==
    IF i > Len(node.children) THEN <<>>
    ELSE dfs(node.children[i], child_path(path, node.children[i].name))
             \o dfs_children(node, path, i + 1)

list_all_files(root) == dfs(root, <<>>)

DirectoryTree_to_dict(root) == TreeNode_to_dict(root)
DirectoryTree_from_dict(data) == TreeNode_from_dict(data)

----------------------------------------------------------------------------
(* The store and the commit graph as a state machine *)

Contents == {<<>>, <<1>>}
Payloads == {Bytes(s) : s \in Contents}
Messages == {"m"}
\* The wall clock is not monotonic: any instant may be read at any call.
Instants == {0, 1}
Author == "A"

\* The hash of a tree that has been stored elsewhere.
TreeHash == hash_content(pickle_dumps(Bytes(<<0>>)))
\* The hash of a commit that was never stored here.
MissingHash == hash_content(pickle_dumps(Commit(TreeHash, None, "lost", Author, 0)))

\* The record of a call: its name, its arguments (None for those it has not),
\* its result, the store before it, and whether its object was stored before.
Call(op, obj, hash, hash2, limit, ret, pre, again) ==
    [op |-> op, obj |-> obj, hash |-> hash, hash2 |-> hash2, limit |-> limit,
     ret |-> ret, pre |-> pre, again |-> again]

NoCall == Call("none", None, None, None, None, None, << >>, FALSE)

CommitHashes == {h \in DOMAIN objects : get_commit(objects, h).ok}
Limits == {None} \cup {PyInt(n) : n \in 0..MaxObjects}

StoreInit ==
    /\ objects = << >>
    /\ issued = {}
    /\ chain = <<>>
    /\ last = NoCall

\* The objects directory holds at most MaxObjects files.
Fits(objs) == Cardinality(DOMAIN objs) <= MaxObjects

\* The caller is done with the result of its last call and may make the next.
Return ==
    /\ last # NoCall
    /\ last' = NoCall
    /\ UNCHANGED <<objects, issued, chain>>

Idle == last = NoCall

StoreObject(obj) ==
    LET r == store_object(objects, obj)
    IN  /\ Idle
        /\ Fits(r.objs)
        /\ objects' = r.objs
        /\ issued' = issued \cup {[obj |-> obj, hash |-> r.ret]}
        /\ last' = Call("store_object", obj, None, None, None, r.ret, objects,
                         \E i \in issued : i.obj = obj)
        /\ UNCHANGED chain

\* create_commit on any parent, datetime.now() returning now; chain follows the
\* commits made on top of its head.
CreateCommit(tree_hash, parent_hash, message, now) ==
    LET c == Commit(tree_hash, parent_hash, message, Author, now)
        r == create_commit(objects, tree_hash, parent_hash, message, Author, now)
        head == IF chain = <<>> THEN None ELSE chain[Len(chain)]
    IN  /\ Idle
        /\ Fits(r.objs)
        /\ objects' = r.objs
        /\ issued' = issued \cup {[obj |-> c, hash |-> r.ret]}
        /\ chain' = IF parent_hash = head THEN Append(chain, r.ret) ELSE chain
        /\ last' = Call("create_commit", c, None, None, None, r.ret, objects,
                         \E i \in issued : i.obj = c)

RetrieveObject(obj_hash) ==
    /\ Idle
    /\ last' = Call("retrieve_object", None, obj_hash, None, None,
                     retrieve_object(objects, obj_hash), objects, FALSE)
    /\ UNCHANGED <<objects, issued, chain>>

GetCommitHistory(commit_hash, max_count) ==
    /\ Idle
    /\ last' = Call("get_commit_history", None, commit_hash, None, max_count,
                     get_commit_history(objects, commit_hash, max_count), objects, FALSE)
    /\ UNCHANGED <<objects, issued, chain>>

GetCommitCount(commit_hash) ==
    /\ Idle
    /\ last' = Call("get_commit_count", None, commit_hash, None, None,
                     get_commit_count(objects, commit_hash), objects, FALSE)
    /\ UNCHANGED <<objects, issued, chain>>

FindCommonAncestor(commit1_hash, commit2_hash) ==
    /\ Idle
    /\ last' = Call("find_common_ancestor", None, commit1_hash, commit2_hash, None,
                     find_common_ancestor(objects, commit1_hash, commit2_hash),
                     objects, FALSE)
    /\ UNCHANGED <<objects, issued, chain>>

StoreNext ==
    \/ Return
    \/ \E obj \in Payloads : StoreObject(obj)
    \/ \E p \in {None, MissingHash} \cup CommitHashes, m \in Messages, now \in Instants :
           CreateCommit(TreeHash, p, m, now)
    \/ \E h \in DOMAIN objects \cup {MissingHash} : RetrieveObject(h)
    \/ \E h \in CommitHashes \cup {MissingHash}, n \in Limits : GetCommitHistory(h, n)
    \/ \E h \in CommitHashes \cup {MissingHash} : GetCommitCount(h)
    \/ \E a, b \in CommitHashes \cup {MissingHash} : FindCommonAncestor(a, b)

ConcIdle == pc = << >> /\ job = << >>
TreeIdle == tree = None /\ added = {}
DiffIdle == texts = None
MergeIdle == merging = None
RepoIdle == repo = None

Init == StoreInit /\ ConcIdle /\ TreeIdle /\ DiffIdle /\ MergeIdle /\ RepoIdle
Next == StoreNext /\ UNCHANGED <<concVars, treeVars, diffVars, mergeVars, repoVars>>
Spec == Init /\ [][Next]_vars

----------------------------------------------------------------------------
(* store_object run by two callers at once, one step of its code at a time *)

Callers == {"c1", "c2"}

ConcInit ==
    /\ pc = [c \in Callers |-> "idle"]
    /\ job = [c \in Callers |-> None]

Digest(c) == hash_content(pickle_dumps(job[c]))

\* Lines 63-72: the object is pickled and hashed, the subdirectory made.
Begin(c, obj) ==
    /\ pc[c] = "idle"
    /\ job' = [job EXCEPT ![c] = obj]
    /\ pc' = [pc EXCEPT ![c] = "check"]
    /\ UNCHANGED objects

\* Line 75: if not os.path.exists(obj_path).
CheckExists(c) ==
    /\ pc[c] = "check"
    /\ pc' = [pc EXCEPT ![c] = IF ~object_exists(objects, Digest(c))
                               THEN "open" ELSE "return"]
    /\ UNCHANGED <<objects, job>>

\* Line 76: open(obj_path, 'wb') makes the file, or empties the one there is.
OpenFile(c) ==
    /\ pc[c] = "open"
    /\ objects' = WriteFile(objects, Digest(c), <<>>)
    /\ pc' = [pc EXCEPT ![c] = "write"]
    /\ UNCHANGED job

\* Line 77 and the end of the with block: the bytes are written from the
\* start of the file, and the file is closed.
WriteBytes(c) ==
    /\ pc[c] = "write"
    /\ objects' = WriteFile(objects, Digest(c), pickle_dumps(job[c]))
    /\ pc' = [pc EXCEPT ![c] = "return"]
    /\ UNCHANGED job

\* Line 79: return obj_hash.
ReturnHash(c) ==
    /\ pc[c] = "return"
    /\ pc' = [pc EXCEPT ![c] = "returned"]
    /\ UNCHANGED <<objects, job>>

\* The caller goes on to its next call.
NextCall(c) ==
    /\ pc[c] = "returned"
    /\ pc' = [pc EXCEPT ![c] = "idle"]
    /\ job' = [job EXCEPT ![c] = None]
    /\ UNCHANGED objects

ConcNext ==
    \E c \in Callers :
        \/ \E obj \in Payloads : Begin(c, obj)
        \/ CheckExists(c)
        \/ OpenFile(c)
        \/ WriteBytes(c)
        \/ ReturnHash(c)
        \/ NextCall(c)

InitConc == StoreInit /\ ConcInit /\ TreeIdle /\ DiffIdle /\ MergeIdle /\ RepoIdle
NextConc == ConcNext /\ UNCHANGED <<issued, chain, last, treeVars, diffVars, mergeVars, repoVars>>
SpecConc == InitConc /\ [][NextConc]_vars

----------------------------------------------------------------------------
(* A DirectoryTree under add_file, and written out and read back *)

Paths == {<<"a">>, <<"b">>, <<"a", "/", "b">>, <<"a", "/", "a">>,
          <<"a", "/", "b", "/", "a">>, <<"/", "a">>, <<"a", "/">>, <<>>}
BlobHashes == {hash_content(pickle_dumps(obj)) : obj \in Payloads}

TreeInit ==
    /\ tree = DirectoryTree
    /\ added = {}
    /\ last = NoCall

AddFile(path, content_hash) ==
    /\ Cardinality(added \cup {path}) <= MaxAdds
    /\ tree' = add_file(tree, path, content_hash)
    /\ added' = added \cup {path}
    /\ last' = Call("add_file", path, content_hash, None, None, None, tree, FALSE)

\* tree = DirectoryTree.from_dict(tree.to_dict())
Reload ==
    /\ tree' = DirectoryTree_from_dict(DirectoryTree_to_dict(tree))
    /\ last' = Call("from_dict", None, None, None, None, None, tree, FALSE)
    /\ UNCHANGED added

TreeNext ==
    \/ \E path \in Paths, h \in BlobHashes : AddFile(path, h)
    \/ Reload

InitTree == TreeInit /\ objects = << >> /\ issued = {} /\ chain = <<>> /\ ConcIdle
            /\ DiffIdle /\ MergeIdle /\ RepoIdle
NextTree == TreeNext /\ UNCHANGED <<objects, issued, chain, concVars, diffVars, mergeVars, repoVars>>
SpecTree == InitTree /\ [][NextTree]_vars

----------------------------------------------------------------------------
(* Helpers of the properties: the parent chain read off the stored files *)

StoredObject(objs, h) == objs[h][2].value

\* The hashes met from h along parent links, ending with the first hash that
\* is not stored when there is one.
RECURSIVE ParentChain(_, _)
ParentChain(objs, h) ==
    IF h = None THEN <<>>
    ELSE IF h \notin DOMAIN objs THEN <<h>>
    ELSE <<h>> \o ParentChain(objs, StoredObject(objs, h).parent_hash)

Range(s) == {s[i] : i \in DOMAIN s}
Intact(objs, h) == Range(ParentChain(objs, h)) \subseteq DOMAIN objs
Broken(objs, h) == ~Intact(objs, h)
Min(a, b) == IF a <= b THEN a ELSE b
Hashes(commits) == [i \in DOMAIN commits |-> commits[i].hash]

----------------------------------------------------------------------------
(* Properties of the object store and the commit graph, under Spec *)

\* C1: store_object is idempotent: a call with an object stored before returns
\* the identifier the first call returned and leaves the stored entries as they
\* were (one file per identifier, no error).
C1_StoreIdempotent ==
    (last.op = "store_object" /\ last.again) =>
        /\ \A i \in issued : i.obj = last.obj => i.hash = last.ret
        /\ objects = last.pre
        /\ objects[last.ret] = pickle_dumps(last.obj)

C1_Witness ==
    /\ last.op = "store_object"
    /\ last.again
    /\ Cardinality(DOMAIN objects) >= 2

C7_CommitChain ==
    LET N == Len(chain) IN
    (N > 0 /\ last.hash = chain[N]) =>
        /\ (last.op = "get_commit_history" /\ last.limit = None) =>
              /\ last.ret.ok
              /\ Len(last.ret.val) = N
              /\ \A i \in 1..N :
                    /\ last.ret.val[i].hash = chain[N + 1 - i]
                    /\ last.ret.val[i].parent_hash =
                          IF i < N THEN last.ret.val[i + 1].hash ELSE None
        /\ last.op = "get_commit_count" => last.ret = Ok(PyInt(N))

C7_Witness ==
    /\ Len(chain) = 3
    /\ last.op = "get_commit_count"
    /\ last.hash = chain[3]
    /\ last.ret = Ok(PyInt(3))

\* C8: get_commit_history(start, limit) on a chain of L stored commits returns
\* the first min(limit, L) commits of the chain for every limit >= 0, and all
\* L without a limit.
C8_HistoryLimit ==
    (last.op = "get_commit_history" /\ Intact(objects, last.hash)) =>
        LET pchain == ParentChain(objects, last.hash)
            L == Len(pchain)
            n == IF last.limit = None THEN L ELSE Min(last.limit.int, L)
        IN  /\ last.ret.ok
            /\ Hashes(last.ret.val) = SubSeq(pchain, 1, n)

\* C8 for the limits that are not 0.
C8_HistoryLimitNonZero ==
    (last.op = "get_commit_history" /\ last.limit # PyInt(0)) => C8_HistoryLimit

\* C9: find_common_ancestor of two stored commits whose chains are stored is
\* a commit on both chains with no proper descendant on both chains, and none
\* exactly when the chains share no commit; with A <- B <- C <- D,
\* find_common_ancestor(D, C) is C.
C9_NearestCommonAncestor ==
    (/\ last.op = "find_common_ancestor"
     /\ last.hash \in DOMAIN objects /\ last.hash2 \in DOMAIN objects
     /\ Intact(objects, last.hash) /\ Intact(objects, last.hash2)) =>
        LET both == Range(ParentChain(objects, last.hash))
                        \cap Range(ParentChain(objects, last.hash2))
        IN  /\ last.ret.ok
            /\ (last.ret.val = None) <=> (both = {})
            /\ last.ret.val # None =>
                  /\ last.ret.val \in both
                  /\ \A x \in both \ {last.ret.val} :
                        last.ret.val \notin Range(ParentChain(objects, x))
            /\ (Len(chain) >= 4 /\ last.hash = chain[4] /\ last.hash2 = chain[3]) =>
                  last.ret.val = chain[3]

C9_Witness ==
    /\ last.op = "find_common_ancestor"
    /\ Len(chain) = 4
    /\ last.hash = chain[4]
    /\ last.hash2 = chain[3]
    /\ last.ret = Ok(chain[3])

\* Where the first hash that is not stored stands on the chain of h.
BreakAt(objs, h) == Len(ParentChain(objs, h))

\* C10: a traversal that reaches a hash that is not stored fails with
\* FileNotFoundError, whether it is get_commit_history (the hash standing
\* within the limit), get_commit_count or find_common_ancestor (the hash
\* standing on the first chain, or on the second before any commit of the
\* first), and it leaves the store as it was.
C10_Reaches ==
    \/ /\ last.op = "get_commit_history"
       /\ Broken(objects, last.hash)
       /\ (last.limit = None \/ BreakAt(objects, last.hash) <= last.limit.int)
    \/ /\ last.op = "get_commit_count"
       /\ Broken(objects, last.hash)
    \/ /\ last.op = "find_common_ancestor"
       /\ \/ Broken(objects, last.hash)
          \/ /\ Broken(objects, last.hash2)
             /\ Range(ParentChain(objects, last.hash))
                    \cap Range(ParentChain(objects, last.hash2)) = {}

C10_MissingIsFatal ==
    C10_Reaches => (last.ret = Raise("FileNotFoundError") /\ objects = last.pre)

C10_Witness ==
    /\ last.op = "find_common_ancestor"
    /\ Intact(objects, last.hash)
    /\ Broken(objects, last.hash2)
    /\ BreakAt(objects, last.hash2) = 3
    /\ last.ret = Raise("FileNotFoundError")

----------------------------------------------------------------------------
(* Properties of store_object run by two callers, under SpecConc *)

\* C3: two callers storing the same object at once, their steps interleaved
\* in any order, return the same identifier, and from the moment either has
\* returned, retrieve_object of that identifier gives the whole object.
C3_ConcurrentStore ==
    \A c \in Callers :
        pc[c] = "returned" =>
            /\ \A d \in Callers :
                  (pc[d] = "returned" /\ job[d] = job[c]) => Digest(d) = Digest(c)
            /\ (\A d \in Callers : job[d] \in {None, job[c]}) =>
                  retrieve_object(objects, Digest(c)) = Ok(job[c])

----------------------------------------------------------------------------
(* Properties of the directory tree, under SpecTree *)

\* Some path of the set runs through another: its parts begin with all the
\* parts of the other.
IsProperPrefix(s, t) == Len(s) < Len(t) /\ SubSeq(t, 1, Len(s)) = s
PrefixCollision(paths) ==
    \E p, q \in paths : IsProperPrefix(split(p), split(q))

\* C4: for paths none of which runs through another, the tree read back from
\* its dict lists the same files and gives the same hash at every path.
C4_TreeRoundTrip ==
    (last.op = "from_dict" /\ ~PrefixCollision(added)) =>
        /\ Range(list_all_files(tree)) = Range(list_all_files(last.pre))
        /\ \A p \in Paths : get_file_hash(tree, p) = get_file_hash(last.pre, p)
        /\ \A p \in added : get_file_hash(tree, p) \in BlobHashes

C4_Witness ==
    /\ last.op = "from_dict"
    /\ ~PrefixCollision(added)
    /\ Cardinality(added) = 3
    /\ Len(list_all_files(tree)) = 3
    /\ \E p \in added : Len(split(p)) = 3

\* C5: for every tree add_file can build, paths running through one another
\* included, the dict of the tree read back from its dict is the dict it was
\* read from, children in the same order.
C5_SerializationStable ==
    last.op = "from_dict" =>
        DirectoryTree_to_dict(tree) = DirectoryTree_to_dict(last.pre)

C5_Witness ==
    /\ last.op = "from_dict"
    /\ PrefixCollision(added)
    /\ tree # last.pre
    /\ Len(tree.children) >= 2

\* A path whose parts are all names: no empty part.
WellFormed(path) == \A i \in DOMAIN split(path) : split(path)[i] # <<>>

AddFilePost ==
    /\ get_file_hash(tree, last.obj) = last.hash
    /\ last.obj \in Range(list_all_files(tree))

\* C6: after add_file(path, h) on a tree built by any earlier add_file calls,
\* get_file_hash(path) is h and list_all_files() contains path (stated for
\* the paths whose parts are all names).
C6_AddFilePost ==
    (last.op = "add_file" /\ \A q \in added : WellFormed(q)) => AddFilePost

\* C6 for a path that no path added before runs into and that has no empty
\* part before its last.
C6_AddFilePostNoCollision ==
    (/\ last.op = "add_file"
     /\ \A q \in added : ~IsProperPrefix(split(q), split(last.obj))
     /\ \A i \in 1..(Len(split(last.obj)) - 1) : split(last.obj)[i] # <<>>) =>
        AddFilePost

----------------------------------------------------------------------------
(* diff.py: a text is a str, the sequence of its characters; a line is the  *)
(* sequence of the characters between two line breaks                      *)

Newline == "\n"

\* str.splitlines(): the lines between the line breaks, and no empty last line
\* after a final line break.
RECURSIVE splitlines_loop(_, _, _, _)
splitlines_loop(text, i, line, lines) ==
    IF i > Len(text) THEN (IF line = <<>> THEN lines ELSE Append(lines, line))
    ELSE IF text[i] = Newline THEN splitlines_loop(text, i + 1, <<>>, Append(lines, line))
    ELSE splitlines_loop(text, i + 1, Append(line, text[i]), lines)

splitlines(text) == splitlines_loop(text, 1, <<>>, <<>>)

\* '\n'.join(lines)
RECURSIVE join(_)
join(lines) ==
    IF lines = <<>> THEN <<>>
    ELSE IF Len(lines) = 1 THEN lines[1]
    ELSE lines[1] \o <<Newline>> \o join(Tail(lines))

DiffLine(line_type, content, line_num) ==
    [line_type |-> line_type, content |-> content, line_num |-> line_num]

max(a, b) == IF a >= b THEN a ELSE b

\* The table is left as it was allocated, every cell 0.
compute_lcs_lengthUnfilled(text1, text2) ==
    [i \in 0..Len(text1), j \in 0..Len(text2) |-> 0]

\* The (m+1) x (n+1) table: dp[i, j] is the LCS length of text1[:i] and text2[:j].
compute_lcs_length(text1, text2) ==
    LET m == Len(text1)
        n == Len(text2)
        dp[i \in 0..m, j \in 0..n] ==
            IF i = 0 \/ j = 0 THEN 0
            ELSE IF text1[i] = text2[j] THEN dp[i - 1, j - 1] + 1
            ELSE max(dp[i - 1, j], dp[i, j - 1])
    IN  dp

reverse(s) == [k \in 1..Len(s) |-> s[Len(s) + 1 - k]]

\* The table is not consulted: a line of text1 is removed whenever one is left.
RECURSIVE backtrack_loopRemoveFirst(_, _, _, _, _, _)
backtrack_loopRemoveFirst(dp, text1, text2, i, j, diff) ==
    IF ~(i > 0 \/ j > 0) THEN diff
    ELSE IF i > 0 /\ j > 0 /\ text1[i] = text2[j]
    THEN backtrack_loopRemoveFirst(dp, text1, text2, i - 1, j - 1,
                                   Append(diff, DiffLine(" ", text1[i], i)))
    ELSE IF i > 0
    THEN backtrack_loopRemoveFirst(dp, text1, text2, i - 1, j,
                                   Append(diff, DiffLine("-", text1[i], i)))
    ELSE backtrack_loopRemoveFirst(dp, text1, text2, i, j - 1,
                                   Append(diff, DiffLine("+", text2[j], 0)))

\* A tie goes to the removal: the test is > in place of >=.
RECURSIVE backtrack_loopStrict(_, _, _, _, _, _)
backtrack_loopStrict(dp, text1, text2, i, j, diff) ==
    IF ~(i > 0 \/ j > 0) THEN diff
    ELSE IF i > 0 /\ j > 0 /\ text1[i] = text2[j]
    THEN backtrack_loopStrict(dp, text1, text2, i - 1, j - 1,
                              Append(diff, DiffLine(" ", text1[i], i)))
    ELSE IF j > 0 /\ (i = 0 \/ dp[i, j - 1] > dp[i - 1, j])
    THEN backtrack_loopStrict(dp, text1, text2, i, j - 1,
                              Append(diff, DiffLine("+", text2[j], 0)))
    ELSE backtrack_loopStrict(dp, text1, text2, i - 1, j,
                              Append(diff, DiffLine("-", text1[i], i)))

\* The while loop of backtrack_diff, from the corner (i, j) of the table.
RECURSIVE backtrack_loop(_, _, _, _, _, _)
backtrack_loop(dp, text1, text2, i, j, diff) ==
    IF ~(i > 0 \/ j > 0) THEN diff
    ELSE IF i > 0 /\ j > 0 /\ text1[i] = text2[j]
    THEN backtrack_loop(dp, text1, text2, i - 1, j - 1,
                        Append(diff, DiffLine(" ", text1[i], i)))
    ELSE IF j > 0 /\ (i = 0 \/ dp[i, j - 1] >= dp[i - 1, j])
    THEN backtrack_loop(dp, text1, text2, i, j - 1,
                        Append(diff, DiffLine("+", text2[j], 0)))
    ELSE backtrack_loop(dp, text1, text2, i - 1, j,
                        Append(diff, DiffLine("-", text1[i], i)))

\* The list is returned as the loop built it, last line first.
backtrack_diffNoReverse(dp, text1, text2) ==
    backtrack_loop(dp, text1, text2, Len(text1), Len(text2), <<>>)

backtrack_diff(dp, text1, text2) ==
    reverse(backtrack_loop(dp, text1, text2, Len(text1), Len(text2), <<>>))

compute_diff(text1, text2) ==
    LET lines1 == IF text1 # <<>> THEN splitlines(text1) ELSE <<>>
        lines2 == IF text2 # <<>> THEN splitlines(text2) ELSE <<>>
        dp == compute_lcs_length(lines1, lines2)
    IN  backtrack_diff(dp, lines1, lines2)

----------------------------------------------------------------------------
(* compute_diff on two texts *)

Lines == {<<"a">>, <<"b">>, <<>>}
LineSeqs == UNION {[1..n -> Lines] : n \in 0..MaxLines}
Texts == {join(ls) : ls \in LineSeqs}

DiffInit ==
    /\ texts \in [text1 : Texts, text2 : Texts]
    /\ last = NoCall

ComputeDiff ==
    /\ last = NoCall
    /\ last' = [op |-> "compute_diff", ret |-> compute_diff(texts.text1, texts.text2)]
    /\ UNCHANGED texts

DiffNext == ComputeDiff

InitDiff == DiffInit /\ objects = << >> /\ issued = {} /\ chain = <<>> /\ ConcIdle
            /\ TreeIdle /\ MergeIdle /\ RepoIdle
NextDiff == DiffNext /\ UNCHANGED <<objects, issued, chain, concVars, treeVars, mergeVars, repoVars>>
SpecDiff == InitDiff /\ [][NextDiff]_vars

----------------------------------------------------------------------------
(* Properties of compute_diff *)

\* The entries of a diff whose type is one of types, in order.
Select(diff, types) == SelectSeq(diff, LAMBDA e : e.line_type \in types)
ContentsOf(diff) == [k \in 1..Len(diff) |-> diff[k].content]
LineNumsOf(diff) == [k \in 1..Len(diff) |-> diff[k].line_num]
Lines1 == splitlines(texts.text1)
Lines2 == splitlines(texts.text2)

\* C11: the diff is a valid edit script: the contents of its unchanged and
\* removed entries, in order, are the lines of the first text, numbered
\* 1..len in increasing order, and the contents of its unchanged and added
\* entries, in order, are the lines of the second text.
C11_ValidEditScript ==
    last.op = "compute_diff" =>
        LET d == last.ret
            old == Select(d, {" ", "-"})
            new == Select(d, {" ", "+"})
        IN  /\ \A k \in 1..Len(d) : d[k].line_type \in {" ", "-", "+"}
            /\ ContentsOf(old) = Lines1
            /\ LineNumsOf(old) = [k \in 1..Len(Lines1) |-> k]
            /\ ContentsOf(new) = Lines2

\* Both texts have lines, some kept, some removed and some added.
C11_Witness ==
    /\ last.op = "compute_diff"
    /\ \A t \in {" ", "-", "+"} : Select(last.ret, {t}) # <<>>
    /\ Len(Lines1) = MaxLines

\* The subsequence of s at the indices in S, from index k on.
RECURSIVE Pick(_, _, _)
Pick(s, S, k) ==
    IF k > Len(s) THEN <<>>
    ELSE IF k \in S THEN <<s[k]>> \o Pick(s, S, k + 1)
    ELSE Pick(s, S, k + 1)

Subsequences(s) == {Pick(s, S, 1) : S \in SUBSET (1..Len(s))}

\* The length of a longest common subsequence, by enumeration.
LCSLength(s, t) ==
    LET common == Subsequences(s) \cap Subsequences(t)
    IN  CHOOSE n \in 0..Len(s) :
            /\ \E u \in common : Len(u) = n
            /\ \A u \in common : Len(u) <= n

\* C12: the diff is minimal: it has as many unchanged entries as a longest
\* common subsequence of the two line sequences has lines, and so
\* m + n - 2 * LCS changed entries.
C12_Minimal ==
    last.op = "compute_diff" =>
        LET lcs == LCSLength(Lines1, Lines2)
        IN  /\ Len(Select(last.ret, {" "})) = lcs
            /\ Len(Select(last.ret, {"-", "+"})) = Len(Lines1) + Len(Lines2) - 2 * lcs

\* The two texts differ, share two lines or more, and the shorter of them is
\* not a subsequence of the other.
C12_Witness ==
    /\ last.op = "compute_diff"
    /\ Len(Select(last.ret, {" "})) >= 2
    /\ Select(last.ret, {"-"}) # <<>>
    /\ Select(last.ret, {"+"}) # <<>>

\* compute_diff with the two texts swapped.
Swapped == compute_diff(texts.text2, texts.text1)

\* C13 as stated, read at its weakest (line numbers and the interleaving of
\* the three kinds of entries are not compared): the added lines of the
\* swapped diff are the removed lines of the diff, its removed lines are
\* the added lines of the diff, and the unchanged lines are the same.
C13_Antisymmetric ==
    last.op = "compute_diff" =>
        /\ ContentsOf(Select(Swapped, {"+"})) = ContentsOf(Select(last.ret, {"-"}))
        /\ ContentsOf(Select(Swapped, {"-"})) = ContentsOf(Select(last.ret, {"+"}))
        /\ ContentsOf(Select(Swapped, {" "})) = ContentsOf(Select(last.ret, {" "}))

\* C13, amended: swapping the two texts swaps the numbers of added and of
\* removed entries and keeps the number of unchanged entries.
C13_CountsSwap ==
    last.op = "compute_diff" =>
        /\ Len(Select(Swapped, {"+"})) = Len(Select(last.ret, {"-"}))
        /\ Len(Select(Swapped, {"-"})) = Len(Select(last.ret, {"+"}))
        /\ Len(Select(Swapped, {" "})) = Len(Select(last.ret, {" "}))

\* The two diffs keep different lines.
C13_Witness ==
    /\ last.op = "compute_diff"
    /\ Select(last.ret, {" "}) # <<>>
    /\ ContentsOf(Select(Swapped, {" "})) # ContentsOf(Select(last.ret, {" "}))

----------------------------------------------------------------------------
(* merge.py: a file's content is a str or None; a file map is a dict from   *)
(* paths to contents, a function on the paths it holds                     *)

Str(s) == [str |-> s]

\* The ancestor's content is not kept.
MergeConflictNoBase(file_path, base, ours, theirs) ==
    [file_path |-> file_path, base |-> EmptyStr, ours |-> ours, theirs |-> theirs]

MergeConflict(file_path, base, ours, theirs) ==
    [file_path |-> file_path, base |-> base, ours |-> ours, theirs |-> theirs]

\* MergeResult(): no conflicts, no merged files, success.
MergeResult == [conflicts |-> <<>>, merged_files |-> << >>, success |-> TRUE]

\* The conflict is appended and success is left as it was.
add_conflictKeepSuccess(result, conflict) ==
    [result EXCEPT !.conflicts = Append(@, conflict)]

add_conflict(result, conflict) ==
    [result EXCEPT !.conflicts = Append(@, conflict), !.success = FALSE]

\* merged_files[file_path] = content
add_merged_file(result, file_path, content) ==
    [result EXCEPT !.merged_files =
        [p \in DOMAIN @ \cup {file_path} |-> IF p = file_path THEN content ELSE @[p]]]

has_conflicts(result) == Len(result.conflicts) > 0

\* Our content is kept when it is the ancestor's.
three_way_mergeKeepOurs(base, ours, theirs) ==
    IF ours = theirs THEN [merged |-> ours, has_conflict |-> FALSE]
    ELSE IF ours = base THEN [merged |-> ours, has_conflict |-> FALSE]
    ELSE IF theirs = base THEN [merged |-> ours, has_conflict |-> FALSE]
    ELSE [merged |-> EmptyStr, has_conflict |-> TRUE]

\* Our content wins a divergent edit.
three_way_mergeOursWins(base, ours, theirs) ==
    IF ours = theirs THEN [merged |-> ours, has_conflict |-> FALSE]
    ELSE IF ours = base THEN [merged |-> theirs, has_conflict |-> FALSE]
    ELSE [merged |-> ours, has_conflict |-> FALSE]

\* (merged_content, has_conflict)
three_way_merge(base, ours, theirs) ==
    IF ours = theirs THEN [merged |-> ours, has_conflict |-> FALSE]
    ELSE IF ours = base THEN [merged |-> theirs, has_conflict |-> FALSE]
    ELSE IF theirs = base THEN [merged |-> ours, has_conflict |-> FALSE]
    ELSE [merged |-> EmptyStr, has_conflict |-> TRUE]

\* The tests are `not x` in place of `x is None`: '' passes for no file.
merge_filesFalsy(file_path, base_content, ours_content, theirs_content) ==
    IF ~Truthy(base_content)
    THEN IF ~Truthy(ours_content) THEN [merged |-> theirs_content, conflict |-> None]
         ELSE IF ~Truthy(theirs_content) THEN [merged |-> ours_content, conflict |-> None]
         ELSE IF ours_content = theirs_content THEN [merged |-> ours_content, conflict |-> None]
         ELSE [merged |-> None,
               conflict |-> MergeConflict(file_path, EmptyStr, ours_content, theirs_content)]
    ELSE IF ~Truthy(ours_content) /\ ~Truthy(theirs_content)
    THEN [merged |-> None, conflict |-> None]
    ELSE IF ~Truthy(ours_content)
    THEN IF theirs_content = base_content THEN [merged |-> None, conflict |-> None]
         ELSE [merged |-> None,
               conflict |-> MergeConflict(file_path, base_content, EmptyStr, theirs_content)]
    ELSE IF ~Truthy(theirs_content)
    THEN IF ours_content = base_content THEN [merged |-> None, conflict |-> None]
         ELSE [merged |-> None,
               conflict |-> MergeConflict(file_path, base_content, ours_content, EmptyStr)]
    ELSE LET m == three_way_merge(base_content, ours_content, theirs_content)
         IN  IF m.has_conflict
             THEN [merged |-> None,
                   conflict |-> MergeConflict(file_path, base_content, ours_content,
                                              theirs_content)]
             ELSE [merged |-> m.merged, conflict |-> None]

\* (merged_content, conflict)
merge_files(file_path, base_content, ours_content, theirs_content) ==
    IF base_content = None
    THEN IF ours_content = None THEN [merged |-> theirs_content, conflict |-> None]
         ELSE IF theirs_content = None THEN [merged |-> ours_content, conflict |-> None]
         ELSE IF ours_content = theirs_content THEN [merged |-> ours_content, conflict |-> None]
         ELSE [merged |-> None,
               conflict |-> MergeConflict(file_path, EmptyStr, ours_content, theirs_content)]
    ELSE IF ours_content = None /\ theirs_content = None
    THEN [merged |-> None, conflict |-> None]
    ELSE IF ours_content = None
    THEN IF theirs_content = base_content THEN [merged |-> None, conflict |-> None]
         ELSE [merged |-> None,
               conflict |-> MergeConflict(file_path, base_content, EmptyStr, theirs_content)]
    ELSE IF theirs_content = None
    THEN IF ours_content = base_content THEN [merged |-> None, conflict |-> None]
         ELSE [merged |-> None,
               conflict |-> MergeConflict(file_path, base_content, ours_content, EmptyStr)]
    ELSE LET m == three_way_merge(base_content, ours_content, theirs_content)
         IN  IF m.has_conflict
             THEN [merged |-> None,
                   conflict |-> MergeConflict(file_path, base_content, ours_content,
                                              theirs_content)]
             ELSE [merged |-> m.merged, conflict |-> None]

\* dict.get(key)
dict_get(d, key) == IF key \in DOMAIN d THEN d[key] ELSE None

\* set(base_files.keys()) | set(ours_files.keys()) | set(theirs_files.keys())
all_paths(base_files, ours_files, theirs_files) ==
    DOMAIN base_files \cup DOMAIN ours_files \cup DOMAIN theirs_files

\* The loop of perform_merge stops after the first conflict: the paths left
\* are dropped.
merge_pathStopAtConflict(m, file_path) ==
    LET r == merge_files(file_path, dict_get(m.base_files, file_path),
                         dict_get(m.ours_files, file_path),
                         dict_get(m.theirs_files, file_path))
    IN  IF r.conflict # None
        THEN [m EXCEPT !.result = add_conflict(@, r.conflict), !.todo = {}]
        ELSE IF r.merged # None
        THEN [m EXCEPT !.result = add_merged_file(@, file_path, r.merged),
                       !.todo = @ \ {file_path}]
        ELSE [m EXCEPT !.todo = @ \ {file_path}]

\* One turn of the loop of perform_merge, for file_path.
merge_path(m, file_path) ==
    LET r == merge_files(file_path, dict_get(m.base_files, file_path),
                         dict_get(m.ours_files, file_path),
                         dict_get(m.theirs_files, file_path))
    IN  IF r.conflict # None
        THEN [m EXCEPT !.result = add_conflict(@, r.conflict), !.todo = @ \ {file_path}]
        ELSE IF r.merged # None
        THEN [m EXCEPT !.result = add_merged_file(@, file_path, r.merged),
                       !.todo = @ \ {file_path}]
        ELSE [m EXCEPT !.todo = @ \ {file_path}]

----------------------------------------------------------------------------
(* perform_merge on three file maps, one path of the union at a time, in    *)
(* any order (the union is a set)                                          *)

MergePaths == {<<"f">>, <<"g">>}
MergeContents == {Str(<<>>), Str(<<"x">>), Str(<<"y">>), Str(<<"z">>)}
FileMaps == UNION {[P -> MergeContents] : P \in SUBSET MergePaths}

\* perform_merge is entered: result = MergeResult(), all_paths is the union.
MergeInit ==
    /\ \E b, o, t \in FileMaps :
           merging = [base_files |-> b, ours_files |-> o, theirs_files |-> t,
                      result |-> MergeResult, todo |-> all_paths(b, o, t)]
    /\ last = NoCall

\* for file_path in all_paths: ...
MergePath(file_path) ==
    /\ file_path \in merging.todo
    /\ merging' = merge_path(merging, file_path)
    /\ last' = [op |-> "merge_files", file_path |-> file_path,
                base |-> dict_get(merging.base_files, file_path),
                ours |-> dict_get(merging.ours_files, file_path),
                theirs |-> dict_get(merging.theirs_files, file_path),
                ret |-> merge_files(file_path, dict_get(merging.base_files, file_path),
                                    dict_get(merging.ours_files, file_path),
                                    dict_get(merging.theirs_files, file_path))]

\* return result
PerformMergeReturn ==
    /\ merging.todo = {}
    /\ last.op # "perform_merge"
    /\ last' = [op |-> "perform_merge", ret |-> merging.result]
    /\ UNCHANGED merging

MergeNext ==
    \/ \E p \in MergePaths : MergePath(p)
    \/ PerformMergeReturn

InitMerge == MergeInit /\ objects = << >> /\ issued = {} /\ chain = <<>> /\ ConcIdle
             /\ TreeIdle /\ DiffIdle /\ RepoIdle
NextMerge == MergeNext /\ UNCHANGED <<objects, issued, chain, concVars, treeVars, diffVars, repoVars>>
SpecMerge == InitMerge /\ [][NextMerge]_vars

----------------------------------------------------------------------------
(* Properties of the merge *)

\* The decision table of a path: what becomes of it, given whether and with
\* what content it is in the ancestor, on our side and on their side.
Take(content) == [kind |-> "take", content |-> content]
Drop == [kind |-> "drop", content |-> None]
Conflict == [kind |-> "conflict", content |-> None]

DecisionTable(base, ours, theirs) ==
    IF base = None
    THEN IF ours # None /\ theirs # None
         THEN (IF ours = theirs THEN Take(ours) ELSE Conflict)
         ELSE IF ours # None THEN Take(ours) ELSE Take(theirs)
    ELSE IF ours = None /\ theirs = None THEN Drop
    ELSE IF ours = None THEN (IF theirs = base THEN Drop ELSE Conflict)
    ELSE IF theirs = None THEN (IF ours = base THEN Drop ELSE Conflict)
    ELSE IF ours = theirs THEN Take(ours)
    ELSE IF ours = base THEN Take(theirs)
    ELSE IF theirs = base THEN Take(ours)
    ELSE Conflict

\* What a result of merge_files says became of the path.
Outcome(ret) ==
    IF ret.conflict # None THEN Conflict
    ELSE IF ret.merged = None THEN Drop
    ELSE Take(ret.merged)

\* C14: merge_files agrees with the decision table on every path of the
\* union, whatever is absent and whatever is empty.
C14_DecisionTable ==
    last.op = "merge_files" =>
        Outcome(last.ret) = DecisionTable(last.base, last.ours, last.theirs)

\* The empty content was on one side and kept apart from no file: the path
\* was added empty on our side alone and the merge takes the empty file.
C14_Witness ==
    /\ last.op = "merge_files"
    /\ last.base = None /\ last.ours = EmptyStr /\ last.theirs = None
    /\ last.file_path \in DOMAIN merging.result.merged_files

\* C15: in the MergeResult that perform_merge builds, after every turn of
\* its loop and when it returns, success is true exactly when the conflict
\* list is empty, and has_conflicts() is the negation of success.
C15_SuccessIffNoConflict ==
    /\ merging.result.success <=> (merging.result.conflicts = <<>>)
    /\ has_conflicts(merging.result) = ~merging.result.success
    /\ last.op = "perform_merge" =>
           /\ last.ret.success <=> (last.ret.conflicts = <<>>)
           /\ has_conflicts(last.ret) = ~last.ret.success

\* A conflict has been recorded and a path is still to be merged.
C15_Witness ==
    /\ merging.result.conflicts # <<>>
    /\ merging.todo # {}

\* The three inputs of perform_merge for the path of a conflict.
InputsOf(c) ==
    [base |-> dict_get(merging.base_files, c.file_path),
     ours |-> dict_get(merging.ours_files, c.file_path),
     theirs |-> dict_get(merging.theirs_files, c.file_path)]

\* C16 as stated: every conflict carries the three inputs of its path as
\* they were given, an absent one as absent.
C16_ThreeInputs ==
    \A k \in 1..Len(merging.result.conflicts) :
        LET c == merging.result.conflicts[k]
        IN  /\ c.file_path \in all_paths(merging.base_files, merging.ours_files,
                                         merging.theirs_files)
            /\ c.base = InputsOf(c).base
            /\ c.ours = InputsOf(c).ours
            /\ c.theirs = InputsOf(c).theirs

OrEmpty(content) == IF content = None THEN EmptyStr ELSE content

\* C16, amended: every conflict carries the three inputs of its path, an
\* absent one as the empty content ''.
C16_ThreeInputsOrEmpty ==
    \A k \in 1..Len(merging.result.conflicts) :
        LET c == merging.result.conflicts[k]
        IN  /\ c.file_path \in all_paths(merging.base_files, merging.ours_files,
                                         merging.theirs_files)
            /\ c.base = OrEmpty(InputsOf(c).base)
            /\ c.ours = OrEmpty(InputsOf(c).ours)
            /\ c.theirs = OrEmpty(InputsOf(c).theirs)

\* perform_merge has returned two conflicts, one at least on a path the
\* ancestor holds and one at least with a side that does not hold the path.
C16_Witness ==
    /\ last.op = "perform_merge"
    /\ Len(last.ret.conflicts) = 2
    /\ \E k \in 1..2 : InputsOf(last.ret.conflicts[k]).base # None
    /\ \E k \in 1..2 : None \in {InputsOf(last.ret.conflicts[k]).ours,
                                 InputsOf(last.ret.conflicts[k]).theirs}

\* The decision table's verdict on a path of the three file maps.
Verdict(p) ==
    DecisionTable(dict_get(merging.base_files, p), dict_get(merging.ours_files, p),
                  dict_get(merging.theirs_files, p))

\* C17: when perform_merge returns, every path of the union has been
\* classified, once: the conflicts are one per path the table calls a
\* conflict, the merged files are the paths the table takes a content for,
\* with that content, no path is both, none is outside the union, and three
\* empty maps give success with no conflict and no merged file.
C17_EveryPathOnce ==
    last.op = "perform_merge" =>
        LET r == last.ret
            union == all_paths(merging.base_files, merging.ours_files,
                               merging.theirs_files)
            conflicted == {r.conflicts[k].file_path : k \in 1..Len(r.conflicts)}
        IN  /\ conflicted = {p \in union : Verdict(p) = Conflict}
            /\ Cardinality(conflicted) = Len(r.conflicts)
            /\ DOMAIN r.merged_files = {p \in union : Verdict(p).kind = "take"}
            /\ \A p \in DOMAIN r.merged_files : r.merged_files[p] = Verdict(p).content
            /\ conflicted \cap DOMAIN r.merged_files = {}
            /\ conflicted \cup DOMAIN r.merged_files \subseteq union
            /\ union = {} => r.success /\ r.conflicts = <<>> /\ r.merged_files = << >>

\* perform_merge has returned one conflict and one merged file.
C17_Witness ==
    /\ last.op = "perform_merge"
    /\ Len(last.ret.conflicts) = 1
    /\ Cardinality(DOMAIN last.ret.merged_files) = 1

----------------------------------------------------------------------------
(* branch.py, staging.py and repository.py. A Repository is the record of   *)
(* its branch manager (branches: name -> commit hash, '' before the first   *)
(* commit), its staging area (staged_files, a dict in insertion order) and  *)
(* its configured author; its object store is the variable objects. Every   *)
(* operation saves what it changed, and a Repository made anew loads what   *)
(* was saved, so the record stands for the files under .minigit as well.    *)

Backslash == "\\"

\* file_path.replace('\\', '/')
normalize(file_path) ==
    [i \in DOMAIN file_path |-> IF file_path[i] = Backslash THEN Slash ELSE file_path[i]]

\* Where the key stands among the items of a dict, or 0.
KeyIndex(items, key) ==
    IF \E i \in DOMAIN items : items[i].key = key
    THEN CHOOSE i \in DOMAIN items : items[i].key = key
    ELSE 0

\* StagingArea.add_file: staged_files[normalized_path] = content_hash; a key
\* already there keeps its place.
StagingArea_add_file(staged_files, file_path, content_hash) ==
    LET i == KeyIndex(staged_files, normalize(file_path))
    IN  IF i = 0 THEN Append(staged_files, Item(normalize(file_path), content_hash))
        ELSE [staged_files EXCEPT ![i] = Item(normalize(file_path), content_hash)]

get_staged_files(staged_files) == staged_files
clear(staged_files) == <<>>
is_empty(staged_files) == Len(staged_files) = 0

\* BranchManager: [branches, current_branch]; a branch name is a str; each
\* operation gives the value returned and the manager left.
BranchManager == [branches |-> << >>, current_branch |-> None]

create_branch(bm, name, commit_hash) ==
    IF name \in DOMAIN bm.branches THEN [ret |-> FALSE, bm |-> bm]
    ELSE [ret |-> TRUE,
          bm |-> [bm EXCEPT !.branches =
                     [n \in DOMAIN @ \cup {name} |-> IF n = name THEN commit_hash ELSE @[n]]]]

\* Any branch there is may be deleted, the current one as well.
delete_branchAny(bm, name) ==
    IF name \notin DOMAIN bm.branches THEN [ret |-> FALSE, bm |-> bm]
    ELSE [ret |-> TRUE,
          bm |-> [bm EXCEPT !.branches = [n \in DOMAIN @ \ {name} |-> @[n]]]]

delete_branch(bm, name) ==
    IF name \notin DOMAIN bm.branches \/ name = bm.current_branch
    THEN [ret |-> FALSE, bm |-> bm]
    ELSE [ret |-> TRUE,
          bm |-> [bm EXCEPT !.branches = [n \in DOMAIN @ \ {name} |-> @[n]]]]

\* The tip is written on every branch.
update_branchAll(bm, name, commit_hash) ==
    IF name \notin DOMAIN bm.branches THEN [ret |-> FALSE, bm |-> bm]
    ELSE [ret |-> TRUE, bm |-> [bm EXCEPT !.branches = [n \in DOMAIN @ |-> commit_hash]]]

update_branch(bm, name, commit_hash) ==
    IF name \notin DOMAIN bm.branches THEN [ret |-> FALSE, bm |-> bm]
    ELSE [ret |-> TRUE, bm |-> [bm EXCEPT !.branches[name] = commit_hash]]

switch_branch(bm, name) ==
    IF name \notin DOMAIN bm.branches THEN [ret |-> FALSE, bm |-> bm]
    ELSE [ret |-> TRUE, bm |-> [bm EXCEPT !.current_branch = name]]

get_current_branch(bm) == bm.current_branch

get_current_commit(bm) ==
    IF bm.current_branch = None THEN None
    ELSE IF bm.current_branch \in DOMAIN bm.branches THEN bm.branches[bm.current_branch]
    ELSE None

branch_exists(bm, name) == name \in DOMAIN bm.branches

\* bytes.decode('utf-8', errors='ignore'): the bytes that are no character
\* on their own are left out.
decode(content_bytes) == Str(SelectSeq(content_bytes.bytes, LAMBDA b : b < 128))

\* The loop stops after the first staged item.
build_treeFirstOnly(root, items) ==
    IF items = <<>> THEN root ELSE add_file(root, Head(items).key, Head(items).value)

\* The loop of Repository.commit over the staged items: tree.add_file for each.
RECURSIVE build_tree(_, _)
build_tree(root, items) ==
    IF items = <<>> THEN root
    ELSE build_tree(add_file(root, Head(items).key, Head(items).value), Tail(items))

MainName == Str(<<"m", "a", "i", "n">>)

\* Repository.init(author) on an empty directory.
Repository_init(author) ==
    LET bm1 == create_branch(BranchManager, MainName, EmptyStr).bm
        bm2 == switch_branch(bm1, MainName).bm
    IN  [branch_manager |-> bm2, staged_files |-> <<>>, config |-> [author |-> author]]

\* The hash is staged and the content is not stored.
Repository_addHashOnly(rp, objs, file_path, content) ==
    IF content = None
    THEN [ret |-> [p \in {file_path} |-> FALSE], repo |-> rp, objs |-> objs]
    ELSE [ret |-> [p \in {file_path} |-> TRUE],
          repo |-> [rp EXCEPT !.staged_files =
                       StagingArea_add_file(@, file_path, store_object(objs, content).ret)],
          objs |-> objs]

\* Repository.add([file_path]) when the file holds content (None: there is
\* no such file): the results, the repository and the store left.
Repository_add(rp, objs, file_path, content) ==
    IF content = None
    THEN [ret |-> [p \in {file_path} |-> FALSE], repo |-> rp, objs |-> objs]
    ELSE LET s == store_object(objs, content)
         IN  [ret |-> [p \in {file_path} |-> TRUE],
              repo |-> [rp EXCEPT !.staged_files = StagingArea_add_file(@, file_path, s.ret)],
              objs |-> s.objs]

\* Every commit is made without a parent.
Repository_commitRoot(rp, objs, message, now) ==
    IF is_empty(rp.staged_files) THEN [ret |-> None, repo |-> rp, objs |-> objs]
    ELSE LET tree_ == build_tree(DirectoryTree, get_staged_files(rp.staged_files))
             t == store_object(objs, DirectoryTree_to_dict(tree_))
             c == create_commit(t.objs, t.ret, None, message, rp.config.author, now)
             bm == update_branch(rp.branch_manager,
                                 get_current_branch(rp.branch_manager), c.ret).bm
         IN  [ret |-> c.ret,
              repo |-> [rp EXCEPT !.branch_manager = bm, !.staged_files = clear(@)],
              objs |-> c.objs]

\* The tip '' of a branch without a commit is passed on as the parent.
Repository_commitEmptyParent(rp, objs, message, now) ==
    IF is_empty(rp.staged_files) THEN [ret |-> None, repo |-> rp, objs |-> objs]
    ELSE LET tree_ == build_tree(DirectoryTree, get_staged_files(rp.staged_files))
             t == store_object(objs, DirectoryTree_to_dict(tree_))
             c == create_commit(t.objs, t.ret, get_current_commit(rp.branch_manager),
                                message, rp.config.author, now)
             bm == update_branch(rp.branch_manager,
                                 get_current_branch(rp.branch_manager), c.ret).bm
         IN  [ret |-> c.ret,
              repo |-> [rp EXCEPT !.branch_manager = bm, !.staged_files = clear(@)],
              objs |-> c.objs]

\* Repository.commit(message) at the instant now.
Repository_commit(rp, objs, message, now) ==
    IF is_empty(rp.staged_files) THEN [ret |-> None, repo |-> rp, objs |-> objs]
    ELSE LET tree_ == build_tree(DirectoryTree, get_staged_files(rp.staged_files))
             t == store_object(objs, DirectoryTree_to_dict(tree_))
             current == get_current_commit(rp.branch_manager)
             parent_hash == IF current = EmptyStr THEN None ELSE current
             c == create_commit(t.objs, t.ret, parent_hash, message, rp.config.author, now)
             bm == update_branch(rp.branch_manager,
                                 get_current_branch(rp.branch_manager), c.ret).bm
         IN  [ret |-> c.ret,
              repo |-> [rp EXCEPT !.branch_manager = bm,
                                  !.staged_files = clear(@)],
              objs |-> c.objs]

\* Repository.branch(branch_name): a new branch at the current commit.
Repository_branch(rp, branch_name) ==
    LET current == get_current_commit(rp.branch_manager)
        current_commit == IF current = EmptyStr THEN None ELSE current
    IN  IF current_commit = None THEN [ret |-> FALSE, repo |-> rp]
        ELSE LET r == create_branch(rp.branch_manager, branch_name, current_commit)
             IN  [ret |-> r.ret, repo |-> [rp EXCEPT !.branch_manager = r.bm]]

\* Repository.branch(branch_name, delete=True)
Repository_branch_delete(rp, branch_name) ==
    LET r == delete_branch(rp.branch_manager, branch_name)
    IN  [ret |-> r.ret, repo |-> [rp EXCEPT !.branch_manager = r.bm]]

Repository_checkout(rp, branch_name) ==
    IF ~branch_exists(rp.branch_manager, branch_name) THEN [ret |-> FALSE, repo |-> rp]
    ELSE LET r == switch_branch(rp.branch_manager, branch_name)
         IN  IF r.ret
             THEN [ret |-> TRUE,
                   repo |-> [rp EXCEPT !.branch_manager = r.bm, !.staged_files = clear(@)]]
             ELSE [ret |-> FALSE, repo |-> rp]

\* The loop of _get_commit_files over the listed paths.
RECURSIVE commit_files_loop(_, _, _, _)
commit_files_loop(objs, tree_, paths, files) ==
    IF paths = <<>> THEN Ok(files)
    ELSE LET content_hash == get_file_hash(tree_, Head(paths))
         IN  IF ~Truthy(content_hash)
             THEN commit_files_loop(objs, tree_, Tail(paths), files)
             ELSE LET b == retrieve_object(objs, content_hash)
                  IN  IF ~b.ok THEN b
                      ELSE IF "bytes" \notin DOMAIN b.val THEN Raise("AttributeError")
                      ELSE commit_files_loop(objs, tree_, Tail(paths),
                               [p \in DOMAIN files \cup {Head(paths)} |->
                                   IF p = Head(paths) THEN decode(b.val) ELSE files[p]])

\* Repository._get_commit_files: path -> content of the files of a commit.
get_commit_files(objs, commit_hash) ==
    LET c == get_commit(objs, commit_hash)
    IN  IF ~c.ok THEN c
        ELSE LET d == retrieve_object(objs, c.val.tree_hash)
             IN  IF ~d.ok THEN d
                 ELSE IF "is_file" \notin DOMAIN d.val THEN Raise("AttributeError")
                 ELSE LET tree_ == DirectoryTree_from_dict(d.val)
                      IN  commit_files_loop(objs, tree_, list_all_files(tree_), << >>)

\* perform_merge with the union of the paths taken in the given order.
RECURSIVE perform_merge_loop(_, _)
perform_merge_loop(m, order) ==
    IF order = <<>> THEN m.result
    ELSE perform_merge_loop(merge_path(m, Head(order)), Tail(order))

perform_merge(base_files, ours_files, theirs_files, order) ==
    perform_merge_loop([base_files |-> base_files, ours_files |-> ours_files,
                        theirs_files |-> theirs_files, result |-> MergeResult,
                        todo |-> all_paths(base_files, ours_files, theirs_files)],
                       order)

\* The orders in which a set may yield its members.
Orders(S) == {s \in [1..Cardinality(S) -> S] : \A x \in S : \E i \in DOMAIN s : s[i] = x}

\* list(d.keys()) of a dict built in the given order.
keys_in(order, d) == SelectSeq(order, LAMBDA p : p \in DOMAIN d)

\* Repository.merge from the common ancestor on: the three file maps are
\* read and merged, and the result is reported.
merge_from(rp, objs, branch_name, base_commit_hash) ==
    LET base_files == get_commit_files(objs, base_commit_hash)
        ours_files == get_commit_files(objs, get_current_commit(rp.branch_manager))
        theirs_files == get_commit_files(objs, rp.branch_manager.branches[branch_name])
    IN  IF ~base_files.ok THEN {base_files}
        ELSE IF ~ours_files.ok THEN {ours_files}
        ELSE IF ~theirs_files.ok THEN {theirs_files}
        ELSE {LET merge_result == perform_merge(base_files.val, ours_files.val,
                                                theirs_files.val, order)
              IN  IF has_conflicts(merge_result)
                  THEN [success |-> FALSE,
                        conflicts |-> [k \in DOMAIN merge_result.conflicts |->
                                          merge_result.conflicts[k].file_path]]
                  ELSE [success |-> TRUE,
                        message |-> <<"Merged ", branch_name, " into ",
                                      get_current_branch(rp.branch_manager)>>,
                        files |-> keys_in(order, merge_result.merged_files)]
              : order \in Orders(all_paths(base_files.val, ours_files.val,
                                           theirs_files.val))}

\* A merge that does not look whether an ancestor was found.
Repository_mergeNoCheck(rp, objs, branch_name) ==
    IF ~branch_exists(rp.branch_manager, branch_name)
    THEN {[success |-> FALSE, error |-> "Branch does not exist"]}
    ELSE IF get_current_commit(rp.branch_manager) = rp.branch_manager.branches[branch_name]
    THEN {[success |-> TRUE, message |-> <<"Already up to date">>]}
    ELSE LET base == find_common_ancestor(objs, get_current_commit(rp.branch_manager),
                                          rp.branch_manager.branches[branch_name])
         IN  IF ~base.ok THEN {base}
             ELSE merge_from(rp, objs, branch_name, base.val)

\* Repository.merge(branch_name): the values it may return (the order of the
\* paths in 'conflicts' and 'files' is that of a set), or the exception raised.
Repository_merge(rp, objs, branch_name) ==
    IF ~branch_exists(rp.branch_manager, branch_name)
    THEN {[success |-> FALSE, error |-> "Branch does not exist"]}
    ELSE IF get_current_commit(rp.branch_manager) = rp.branch_manager.branches[branch_name]
    THEN {[success |-> TRUE, message |-> <<"Already up to date">>]}
    ELSE LET base == find_common_ancestor(objs, get_current_commit(rp.branch_manager),
                                          rp.branch_manager.branches[branch_name])
         IN  IF ~base.ok THEN {base}
             ELSE IF base.val = None
             THEN {[success |-> FALSE, error |-> "No common ancestor"]}
             ELSE merge_from(rp, objs, branch_name, base.val)

\* A merge that succeeded moves the current branch to the tip merged in.
merge_writesFastForward(rp, objs, branch_name, ret) ==
    IF "files" \in DOMAIN ret
    THEN [repo |-> [rp EXCEPT !.branch_manager =
                       update_branch(@, get_current_branch(@),
                                     @.branches[branch_name]).bm],
          objs |-> objs]
    ELSE [repo |-> rp, objs |-> objs]

\* The repository and the store when Repository.merge(branch_name) has
\* returned ret: no path through merge assigns to a branch, to the staging
\* area or to the store, and the merged files are reported only.
merge_writes(rp, objs, branch_name, ret) == [repo |-> rp, objs |-> objs]

----------------------------------------------------------------------------
(* A repository under its operations, from Repository.init on *)

DevName == Str(<<"d", "e", "v">>)
BranchNames == {MainName, DevName}

\* What a file of the working directory may hold when add reads it; None
\* when there is no such file.
WorkFiles == {[path |-> <<"a", "/", "b">>, content |-> Bytes(<<1>>)],
              [path |-> <<"a", "/", "b">>, content |-> Bytes(<<2>>)],
              [path |-> <<"a", Backslash, "b">>, content |-> Bytes(<<3>>)],
              [path |-> <<"b">>, content |-> None]}
\* datetime.now() as create_commit reads it.
RepoInstants == {0}

CommitsIn(objs) == {h \in DOMAIN objs : get_commit(objs, h).ok}

RepoInit ==
    /\ repo = Repository_init(Author)
    /\ objects = << >>
    /\ last = NoCall

RepoCall(op, arg, ret) ==
    [op |-> op, arg |-> arg, ret |-> ret, pre |-> [repo |-> repo, objects |-> objects]]

RepoReturn == Return /\ UNCHANGED repo

RepoAdd(file_path, content) ==
    LET r == Repository_add(repo, objects, file_path, content)
    IN  /\ Idle
        /\ repo' = r.repo
        /\ objects' = r.objs
        /\ last' = RepoCall("add", file_path, r.ret)

RepoCommit(message, now) ==
    LET r == Repository_commit(repo, objects, message, now)
    IN  /\ Idle
        /\ Cardinality(CommitsIn(r.objs)) <= MaxCommits
        /\ repo' = r.repo
        /\ objects' = r.objs
        /\ last' = RepoCall("commit", message, r.ret)

RepoBranch(branch_name) ==
    LET r == Repository_branch(repo, branch_name)
    IN  /\ Idle
        /\ repo' = r.repo
        /\ last' = RepoCall("branch", branch_name, r.ret)
        /\ UNCHANGED objects

RepoBranchDelete(branch_name) ==
    LET r == Repository_branch_delete(repo, branch_name)
    IN  /\ Idle
        /\ repo' = r.repo
        /\ last' = RepoCall("branch_delete", branch_name, r.ret)
        /\ UNCHANGED objects

RepoCheckout(branch_name) ==
    LET r == Repository_checkout(repo, branch_name)
    IN  /\ Idle
        /\ repo' = r.repo
        /\ last' = RepoCall("checkout", branch_name, r.ret)
        /\ UNCHANGED objects

RepoMerge(branch_name) ==
    /\ Idle
    /\ \E ret \in Repository_merge(repo, objects, branch_name) :
           LET r == merge_writes(repo, objects, branch_name, ret)
           IN  /\ repo' = r.repo
               /\ objects' = r.objs
               /\ last' = RepoCall("merge", branch_name, ret)

RepoNext ==
    \/ RepoReturn
    \/ \E f \in WorkFiles : RepoAdd(f.path, f.content)
    \/ \E m \in Messages, now \in RepoInstants : RepoCommit(m, now)
    \/ \E n \in BranchNames : RepoBranch(n)
    \/ \E n \in BranchNames : RepoBranchDelete(n)
    \/ \E n \in BranchNames : RepoCheckout(n)
    \/ \E n \in BranchNames : RepoMerge(n)

InitRepo == RepoInit /\ issued = {} /\ chain = <<>> /\ ConcIdle /\ TreeIdle
            /\ DiffIdle /\ MergeIdle
NextRepo == RepoNext /\ UNCHANGED <<issued, chain, concVars, treeVars, diffVars, mergeVars>>
SpecRepo == InitRepo /\ [][NextRepo]_vars

----------------------------------------------------------------------------
(* add and commit alone, on files whose paths may run through one another *)

StageFiles == {[path |-> <<"a">>, content |-> Bytes(<<1>>)],
               [path |-> <<"b">>, content |-> Bytes(<<1>>)],
               [path |-> <<"a", "/", "b">>, content |-> Bytes(<<2>>)],
               [path |-> <<"a", Backslash, "b">>, content |-> Bytes(<<2>>)],
               [path |-> <<"b">>, content |-> None]}

StageNext ==
    \/ RepoReturn
    \/ \E f \in StageFiles : RepoAdd(f.path, f.content)
    \/ \E m \in Messages, now \in RepoInstants : RepoCommit(m, now)

NextStage == StageNext /\ UNCHANGED <<issued, chain, concVars, treeVars, diffVars, mergeVars>>
SpecStage == InitRepo /\ [][NextStage]_vars

----------------------------------------------------------------------------
(* A repository that holds a branch brought in from elsewhere: a root       *)
(* commit stored through repo.commit_history and a branch created at it    *)
(* through repo.branch_manager, as a Repository made anew would load them  *)

GraftInit ==
    LET rp == Repository_init(Author)
        t == store_object(<< >>, DirectoryTree_to_dict(DirectoryTree))
    IN  \E now \in RepoInstants :
            LET c == create_commit(t.objs, t.ret, None, "m", Author, now)
            IN  /\ repo = [rp EXCEPT !.branch_manager =
                              create_branch(@, DevName, c.ret).bm]
                /\ objects = c.objs
                /\ last = NoCall

InitGraft == GraftInit /\ issued = {} /\ chain = <<>> /\ ConcIdle /\ TreeIdle
             /\ DiffIdle /\ MergeIdle
SpecGraft == InitGraft /\ [][NextRepo]_vars

----------------------------------------------------------------------------
(* Properties of the repository *)

\* The keys of a dict held as the sequence of its items.
Keys(items) == {items[i].key : i \in DOMAIN items}

\* The DirectoryTree of a stored commit.
TreeOf(objs, commit_hash) ==
    DirectoryTree_from_dict(
        retrieve_object(objs, get_commit(objs, commit_hash).val.tree_hash).val)

\* The tip of the current branch of a repository.
Tip(rp) == get_current_commit(rp.branch_manager)

\* The commits on the parent chain of a tip ('' and None have none).
RECURSIVE Ancestry(_, _)
Ancestry(objs, h) ==
    IF ~Truthy(h) THEN {}
    ELSE {h} \cup Ancestry(objs, get_commit(objs, h).val.parent_hash)

\* C18: a merge of a branch whose tip shares no commit with the current tip
\* returns {'success': False, 'error': 'No common ancestor'}, raises
\* nothing, and leaves the branches, the staging area and the store as they
\* were; a result that carries 'conflicts' carries no 'error'.
C18_NoCommonAncestor ==
    last.op = "merge" =>
        /\ "conflicts" \in DOMAIN last.ret => "error" \notin DOMAIN last.ret
        /\ (/\ branch_exists(last.pre.repo.branch_manager, last.arg)
            /\ Ancestry(last.pre.objects, Tip(last.pre.repo))
                   \cap Ancestry(last.pre.objects,
                                 last.pre.repo.branch_manager.branches[last.arg]) = {}
            /\ Tip(last.pre.repo) # last.pre.repo.branch_manager.branches[last.arg]) =>
               /\ last.ret = [success |-> FALSE, error |-> "No common ancestor"]
               /\ repo = last.pre.repo
               /\ objects = last.pre.objects

\* The current branch has a commit, the other branch has another, and the
\* two were merged.
C18_Witness ==
    /\ last.op = "merge"
    /\ branch_exists(repo.branch_manager, last.arg)
    /\ Tip(repo) # EmptyStr
    /\ Ancestry(objects, Tip(repo))
           \cap Ancestry(objects, repo.branch_manager.branches[last.arg]) = {}

C20_OnlyCurrentBranchMoves ==
    last.op = "commit" =>
        LET before == last.pre.repo
            current == before.branch_manager.current_branch
        IN  IF before.staged_files = <<>>
            THEN last.ret = None /\ repo = before /\ objects = last.pre.objects
            ELSE /\ last.ret # None
                 /\ get_commit(objects, last.ret).ok
                 /\ get_commit(objects, last.ret).val.parent_hash =
                        (IF Tip(before) = EmptyStr THEN None ELSE Tip(before))
                 /\ repo.branch_manager.current_branch = current
                 /\ DOMAIN repo.branch_manager.branches = DOMAIN before.branch_manager.branches
                 /\ repo.branch_manager.branches[current] = last.ret
                 /\ \A n \in DOMAIN before.branch_manager.branches \ {current} :
                        repo.branch_manager.branches[n] = before.branch_manager.branches[n]
                 /\ repo.staged_files = <<>>
                 /\ \A h \in DOMAIN last.pre.objects :
                        h \in DOMAIN objects /\ objects[h] = last.pre.objects[h]

\* A commit was made while another branch stood at the previous tip.
C20_Witness ==
    /\ last.op = "commit"
    /\ last.ret # None
    /\ \E n \in DOMAIN repo.branch_manager.branches :
           /\ n # repo.branch_manager.current_branch
           /\ repo.branch_manager.branches[n] = Tip(last.pre.repo)
           /\ repo.branch_manager.branches[n] # last.ret

----------------------------------------------------------------------------
(* Further properties of the merge and of the diff *)

\* C21: when their files are the ancestor's, perform_merge returns no
\* conflict and our files as the merged files; when our files are the
\* ancestor's, no conflict and their files.
C21_OneSidedChange ==
    last.op = "perform_merge" =>
        /\ merging.theirs_files = merging.base_files =>
               /\ last.ret.conflicts = <<>>
               /\ last.ret.success
               /\ last.ret.merged_files = merging.ours_files
        /\ merging.ours_files = merging.base_files =>
               /\ last.ret.conflicts = <<>>
               /\ last.ret.success
               /\ last.ret.merged_files = merging.theirs_files

\* Our files are the ancestor's and their side has changed a file, deleted
\* another or added one.
C21_Witness ==
    /\ last.op = "perform_merge"
    /\ merging.ours_files = merging.base_files
    /\ DOMAIN merging.base_files = MergePaths
    /\ \E p \in MergePaths : p \notin DOMAIN merging.theirs_files
    /\ \E p \in DOMAIN merging.theirs_files : merging.theirs_files[p] # merging.base_files[p]

\* The paths of the conflicts of a MergeResult.
ConflictPaths(result) ==
    {result.conflicts[k].file_path : k \in DOMAIN result.conflicts}

\* A conflict with its two sides exchanged.
SwapSides(c) == MergeConflict(c.file_path, c.base, c.theirs, c.ours)

\* C24: perform_merge with the two sides exchanged gives the same merged
\* files and conflicts on the same paths, each the conflict of that path
\* with ours and theirs exchanged.
C24_MergeSymmetric ==
    last.op = "perform_merge" =>
        \A order \in Orders(all_paths(merging.base_files, merging.ours_files,
                                      merging.theirs_files)) :
            LET swapped == perform_merge(merging.base_files, merging.theirs_files,
                                         merging.ours_files, order)
            IN  /\ swapped.merged_files = last.ret.merged_files
                /\ ConflictPaths(swapped) = ConflictPaths(last.ret)
                /\ {SwapSides(swapped.conflicts[k]) : k \in DOMAIN swapped.conflicts}
                       = Range(last.ret.conflicts)
                /\ swapped.success = last.ret.success

\* The two sides differ, one path is in conflict and the other is merged
\* with the content of one side only.
C24_Witness ==
    /\ last.op = "perform_merge"
    /\ Len(last.ret.conflicts) = 1
    /\ \E p \in DOMAIN last.ret.merged_files :
           dict_get(merging.ours_files, p) # dict_get(merging.theirs_files, p)

\* C23: in the diff, an added entry is never followed at once by a removed
\* entry: in every run of changed entries the removed ones come first.
C23_RemovedBeforeAdded ==
    last.op = "compute_diff" =>
        \A k \in 1..(Len(last.ret) - 1) :
            ~(last.ret[k].line_type = "+" /\ last.ret[k + 1].line_type = "-")

\* A run of changed entries holds two removed entries and then an added one.
C23_Witness ==
    /\ last.op = "compute_diff"
    /\ \E k \in 1..(Len(last.ret) - 2) :
           /\ last.ret[k].line_type = "-"
           /\ last.ret[k + 1].line_type = "-"
           /\ last.ret[k + 2].line_type = "+"

----------------------------------------------------------------------------
(* Further properties of the commit graph *)

\* C28: on stored commits whose parent chains are whole, the common
\* ancestor of a and b is that of b and a, the common ancestor of a and a
\* is a, and when b is on the parent chain of a it is b.
C28_SymmetricReflexive ==
    (/\ last.op = "find_common_ancestor"
     /\ last.hash \in CommitHashes /\ last.hash2 \in CommitHashes
     /\ Intact(objects, last.hash) /\ Intact(objects, last.hash2)) =>
        /\ last.ret.ok
        /\ find_common_ancestor(objects, last.hash2, last.hash) = last.ret
        /\ last.hash = last.hash2 => last.ret.val = last.hash
        /\ last.hash2 \in Range(ParentChain(objects, last.hash)) =>
               last.ret.val = last.hash2

\* The second commit is a proper ancestor of the first.
C28_Witness ==
    /\ last.op = "find_common_ancestor"
    /\ last.hash \in CommitHashes /\ last.hash2 \in CommitHashes
    /\ Intact(objects, last.hash)
    /\ last.hash # last.hash2
    /\ last.hash2 \in Range(ParentChain(objects, last.hash))
    /\ last.ret = Ok(last.hash2)

----------------------------------------------------------------------------
(* Invariants of the repository under its operations *)

Branches == repo.branch_manager.branches

\* C25: the current branch is never None and always names a branch of the
\* table; deleting the current branch and checking out a branch that is not
\* there return False and change nothing.
C25_CurrentBranch ==
    /\ repo.branch_manager.current_branch # None
    /\ repo.branch_manager.current_branch \in DOMAIN Branches
    /\ (last.op = "branch_delete"
            /\ last.arg = last.pre.repo.branch_manager.current_branch) =>
           last.ret = FALSE /\ repo = last.pre.repo /\ objects = last.pre.objects
    /\ (last.op = "checkout" /\ last.arg \notin DOMAIN last.pre.repo.branch_manager.branches) =>
           last.ret = FALSE /\ repo = last.pre.repo /\ objects = last.pre.objects

\* The deletion of the current branch was asked for while another branch
\* was there.
C25_Witness ==
    /\ last.op = "branch_delete"
    /\ last.arg = last.pre.repo.branch_manager.current_branch
    /\ Cardinality(DOMAIN Branches) = 2

\* The hashes a stored tree lists for its files.
ListedHashes(objs, commit_hash) ==
    LET tree_ == TreeOf(objs, commit_hash)
    IN  {get_file_hash(tree_, p) : p \in Range(list_all_files(tree_))}

\* A stored commit whose parent, when it has one, is a stored commit, whose
\* tree is stored and whose tree lists stored contents only.
Sound(objs, h) ==
    /\ get_commit(objs, h).ok
    /\ LET c == get_commit(objs, h).val
       IN  /\ c.parent_hash # None => get_commit(objs, c.parent_hash).ok
           /\ retrieve_object(objs, c.tree_hash).ok
           /\ "is_file" \in DOMAIN retrieve_object(objs, c.tree_hash).val
           /\ \A x \in ListedHashes(objs, h) :
                  /\ retrieve_object(objs, x).ok
                  /\ "bytes" \in DOMAIN retrieve_object(objs, x).val

\* The commits met from a tip along the parents, in n steps at most, up to
\* the end of the chain or to a hash that is no stored commit.
RECURSIVE Walk(_, _, _)
Walk(objs, h, n) ==
    IF n = 0 \/ h = None THEN <<>>
    ELSE IF ~get_commit(objs, h).ok THEN <<h>>
    ELSE <<h>> \o Walk(objs, get_commit(objs, h).val.parent_hash, n - 1)

\* C26: every tip is '' or a stored commit; '' is the tip of main only,
\* while main is the only branch and no commit is stored; every commit on
\* the chain of a tip has its parent, its tree and the contents its tree
\* lists in the store.
C26_ReferentialIntegrity ==
    \A n \in DOMAIN Branches :
        IF Branches[n] = EmptyStr
        THEN n = MainName /\ DOMAIN Branches = {MainName} /\ CommitsIn(objects) = {}
        ELSE \A h \in Range(Walk(objects, Branches[n], Cardinality(DOMAIN objects) + 1)) :
                 Sound(objects, h)

\* Two branches stand at two commits, one the parent of the other.
C26_Witness ==
    /\ Cardinality(DOMAIN Branches) = 2
    /\ \E n1, n2 \in DOMAIN Branches :
           /\ Branches[n1] # Branches[n2]
           /\ get_commit(objects, Branches[n1]).val.parent_hash = Branches[n2]

\* C27: once there is a commit, any two tips have a common ancestor, and no
\* merge returns the failure 'No common ancestor'.
C27_NeverUnrelated ==
    /\ CommitsIn(objects) # {} =>
           \A n1, n2 \in DOMAIN Branches :
               /\ find_common_ancestor(objects, Branches[n1], Branches[n2]).ok
               /\ find_common_ancestor(objects, Branches[n1], Branches[n2]).val # None
    /\ last.op = "merge" => last.ret # [success |-> FALSE, error |-> "No common ancestor"]

\* A branch at another commit than the current one was merged.
C27_Witness ==
    /\ last.op = "merge"
    /\ last.arg \in DOMAIN Branches
    /\ Branches[last.arg] # Tip(repo)
    /\ "files" \in DOMAIN last.ret

\* C29: the parent chain of every tip visits no commit twice and ends at a
\* commit without a parent after as many steps as there are commits at the
\* most, and get_commit_history, get_commit_count and find_common_ancestor
\* from tips return.
C29_TraversalsTerminate ==
    \A n \in DOMAIN Branches :
        Branches[n] # EmptyStr =>
            LET bound == Cardinality(CommitsIn(objects))
                walk == Walk(objects, Branches[n], bound + 1)
            IN  /\ Len(walk) <= bound
                /\ \A i, j \in DOMAIN walk : i # j => walk[i] # walk[j]
                /\ get_commit(objects, walk[Len(walk)]).ok
                /\ get_commit(objects, walk[Len(walk)]).val.parent_hash = None
                /\ get_commit_history(objects, Branches[n], None).ok
                /\ Len(get_commit_history(objects, Branches[n], None).val) = Len(walk)
                /\ get_commit_count(objects, Branches[n]).ok
                /\ \A n2 \in DOMAIN Branches :
                       find_common_ancestor(objects, Branches[n], Branches[n2]).ok

\* The chain of the current tip is as long as the bound on commits allows.
C29_Witness ==
    /\ Tip(repo) # EmptyStr
    /\ Len(Walk(objects, Tip(repo), MaxCommits + 1)) = MaxCommits

----------------------------------------------------------------------------
(* A repository with a forked history: main and dev have each committed    *)
(* after dev was created, and old is a branch at a commit without parent,  *)
(* placed as for SpecGraft                                                 *)

OldName == Str(<<"o", "l", "d">>)
NoName == Str(<<"n", "o">>)
ForkNames == {MainName, DevName, OldName, NoName}
ForkPath == <<"a", "/", "b">>
ForkContents == {Bytes(<<1>>), Bytes(<<2>>), Bytes(<<3>>)}

\* init; add, commit; branch dev; add, commit; checkout dev; add, commit;
\* then the commit without parent and the branch old at it.
ForksInit ==
    \E base, ours, theirs \in ForkContents, now \in RepoInstants :
    \E a1 \in {Repository_add(Repository_init(Author), << >>, ForkPath, base)} :
    \E c1 \in {Repository_commit(a1.repo, a1.objs, "m", now)} :
    \E b1 \in {Repository_branch(c1.repo, DevName)} :
    \E a2 \in {Repository_add(b1.repo, c1.objs, ForkPath, ours)} :
    \E c2 \in {Repository_commit(a2.repo, a2.objs, "m", now)} :
    \E s1 \in {Repository_checkout(c2.repo, DevName)} :
    \E a3 \in {Repository_add(s1.repo, c2.objs, ForkPath, theirs)} :
    \E c3 \in {Repository_commit(a3.repo, a3.objs, "m", now)} :
    \E t \in {store_object(c3.objs, DirectoryTree_to_dict(DirectoryTree))} :
    \E c \in {create_commit(t.objs, t.ret, None, "m", Author, now)} :
        /\ repo = [c3.repo EXCEPT !.branch_manager =
                      create_branch(@, OldName, c.ret).bm]
        /\ objects = c.objs
        /\ last = NoCall

ForksNext ==
    \/ RepoReturn
    \/ \E f \in WorkFiles : RepoAdd(f.path, f.content)
    \/ \E n \in ForkNames : RepoBranchDelete(n)
    \/ \E n \in ForkNames : RepoCheckout(n)
    \/ \E n \in ForkNames : RepoMerge(n)

InitForks == ForksInit /\ issued = {} /\ chain = <<>> /\ ConcIdle /\ TreeIdle
             /\ DiffIdle /\ MergeIdle
NextForks == ForksNext /\ UNCHANGED <<issued, chain, concVars, treeVars, diffVars, mergeVars>>
SpecForks == InitForks /\ [][NextForks]_vars

\* C22: whatever Repository.merge returns (unknown branch, already up to
\* date, no common ancestor, conflicts, merged), every branch tip, the
\* current branch, the staging area and the stored objects, and with them
\* the commits, are as they were before the call.
C22_MergeReadOnly ==
    last.op = "merge" =>
        /\ repo.branch_manager.branches = last.pre.repo.branch_manager.branches
        /\ repo.branch_manager.current_branch = last.pre.repo.branch_manager.current_branch
        /\ repo.staged_files = last.pre.repo.staged_files
        /\ objects = last.pre.objects
        /\ CommitsIn(objects) = CommitsIn(last.pre.objects)
        /\ repo = last.pre.repo

\* A merge of two branches that have both changed the file since their
\* fork reported 'Merged ... into ...' with something staged.
C22_Witness ==
    /\ last.op = "merge"
    /\ "files" \in DOMAIN last.ret
    /\ Len(last.ret.files) = 1
    /\ ~is_empty(repo.staged_files)
    /\ LET base == find_common_ancestor(objects, Tip(repo), Branches[last.arg]).val
       IN  base # Tip(repo) /\ base # Branches[last.arg]

----------------------------------------------------------------------------
(* hash_object.py, staging.py and repository.py: the status of the files *)

\* hash_file(file_path) of a file that holds content: the SHA-1 of the bytes
\* read from it, without pickling.
hash_file(content) == hash_content(content.bytes)

\* staged_files.get(path) on the dict held as the sequence of its items.
items_get(items, key) ==
    IF KeyIndex(items, key) = 0 THEN None ELSE items[KeyIndex(items, key)].value

StatusCategories ==
    {"staged_new", "staged_modified", "staged_deleted",
     "not_staged_modified", "not_staged_deleted", "untracked"}

\* status[category].append(path)
status_append(status, category, path) ==
    [status EXCEPT ![category] = Append(@, path)]

\* The body of the loop of FileStatus.get_status for one path.
status_path(status, path, working_files, staged_files, committed_files) ==
    LET working_hash == dict_get(working_files, path)
        staged_hash == items_get(staged_files, path)
        committed_hash == dict_get(committed_files, path)
    IN  IF staged_hash # None
        THEN LET s1 == IF committed_hash = None
                       THEN status_append(status, "staged_new", path)
                       ELSE IF staged_hash # committed_hash
                       THEN status_append(status, "staged_modified", path)
                       ELSE status
             IN  IF working_hash # staged_hash
                 THEN IF working_hash = None
                      THEN status_append(s1, "not_staged_deleted", path)
                      ELSE status_append(s1, "not_staged_modified", path)
                 ELSE s1
        ELSE IF committed_hash # None
        THEN IF working_hash = None
             THEN status_append(status, "not_staged_deleted", path)
             ELSE IF working_hash # committed_hash
             THEN status_append(status, "not_staged_modified", path)
             ELSE status
        ELSE IF working_hash # None
        THEN status_append(status, "untracked", path)
        ELSE status

RECURSIVE get_status_loop(_, _, _, _, _)
get_status_loop(order, status, working_files, staged_files, committed_files) ==
    IF order = <<>> THEN status
    ELSE get_status_loop(Tail(order),
             status_path(status, Head(order), working_files, staged_files,
                         committed_files),
             working_files, staged_files, committed_files)

\* FileStatus.get_status, the set of all paths yielding them in the given
\* order.
FileStatus_get_status(working_files, staged_files, committed_files, order) ==
    get_status_loop(order, [c \in StatusCategories |-> <<>>],
                    working_files, staged_files, committed_files)

\* The dict path -> hash that status fills from the tree of a commit.
committed_hashes(objs, current_commit) ==
    IF ~Truthy(current_commit) THEN Ok(<< >>)
    ELSE LET commit_ == get_commit(objs, current_commit)
         IN  IF ~commit_.ok THEN commit_
             ELSE LET tree_dict == retrieve_object(objs, commit_.val.tree_hash)
                  IN  IF ~tree_dict.ok THEN tree_dict
                      ELSE LET tree_ == DirectoryTree_from_dict(tree_dict.val)
                           IN  Ok([p \in Range(list_all_files(tree_)) |->
                                      get_file_hash(tree_, p)])

\* Repository.status() over a working directory, given as the map from the
\* relative paths of its files to what they hold: the values it may return.
Repository_status(rp, objs, directory) ==
    LET working_files == [p \in {normalize(q) : q \in DOMAIN directory} |->
                             hash_file(directory[CHOOSE q \in DOMAIN directory :
                                                     normalize(q) = p])]
        committed_files == committed_hashes(objs, get_current_commit(rp.branch_manager))
        staged_files == get_staged_files(rp.staged_files)
    IN  IF ~committed_files.ok THEN {committed_files}
        ELSE {FileStatus_get_status(working_files, staged_files,
                                    committed_files.val, order)
              : order \in Orders(DOMAIN working_files \cup Keys(staged_files)
                                     \cup DOMAIN committed_files.val)}

(* A repository with a working directory whose files are added, committed *)
(* and compared by status                                                 *)

StatusPaths == {<<"b">>, <<"a", "/", "b">>}
\* What a file at the path may hold.
StatusContents(path) ==
    IF path = <<"b">> THEN {Bytes(<<1>>), Bytes(<<2>>)} ELSE {Bytes(<<1>>)}
\* The working directories: some of the paths, each with a content.
Directories ==
    UNION {{d \in [S -> {Bytes(<<1>>), Bytes(<<2>>)}] : \A p \in S : d[p] \in StatusContents(p)}
           : S \in SUBSET StatusPaths}

RepoStatus(directory) ==
    /\ Idle
    /\ \E ret \in Repository_status(repo, objects, directory) :
           last' = RepoCall("status", directory, ret)
    /\ UNCHANGED <<repo, objects>>

\* add reads the file at file_path of the directory, None when it has none.
StatusNext ==
    \/ RepoReturn
    \/ \E d \in Directories, p \in StatusPaths : RepoAdd(p, dict_get(d, p))
    \/ \E m \in Messages, now \in RepoInstants : RepoCommit(m, now)
    \/ \E d \in Directories : RepoStatus(d)

NextStatus == StatusNext /\ UNCHANGED <<issued, chain, concVars, treeVars, diffVars, mergeVars>>
SpecStatus == InitRepo /\ [][NextStatus]_vars

\* The path is listed by the status returned under the category.
Listed(category, path) == path \in Range(last.ret[category])

\* What add records for a file that holds content.
AddedHash(content) == store_object(objects, content).ret

\* C30: status lists no file under not_staged_modified whose working copy
\* holds what add has staged for it, and none, with nothing staged, whose
\* working copy holds what the current commit has for it.
C30_StatusAgrees ==
    last.op = "status" =>
        \A p \in DOMAIN last.arg :
            /\ items_get(repo.staged_files, p) = AddedHash(last.arg[p]) =>
                   ~Listed("not_staged_modified", p)
            /\ (/\ is_empty(repo.staged_files)
                /\ Tip(repo) # EmptyStr
                /\ get_file_hash(TreeOf(objects, Tip(repo)), p) = AddedHash(last.arg[p])) =>
                   ~Listed("not_staged_modified", p)

====
